---- MODULE Spec2Model ----
(***************************************************************************)
(* ProductService (app.py): five HTTP handlers over a products table,      *)
(* each run inside one SQLAlchemy session on a PostgreSQL store.           *)
(*                                                                         *)
(* A nullable Python value is a set of at most one element: None is {},    *)
(* a value v is {v}.  A string is the sequence of its characters.          *)
(* Committed table rows hold raw values (every column is NOT NULL).        *)
(***************************************************************************)
EXTENDS Integers, Sequences, FiniteSets, TLC

\* ---- bounds of the model ----
MaxSeq == 2        \* products_id_seq values handed out in one run
MaxPage == 2       \* largest offset / limit a request gives

\* the requests in progress at the same time
Workers == {1, 2}

None == {}
Some(v) == {v}
Val(o) == CHOOSE v \in o : TRUE

\* ---- tables ----
\* unit_measures: pre-seeded, no handler writes it
UnitMeasure == { [id |-> 1, name |-> <<"k", "g">>], [id |-> 2, name |-> <<"l">>] }

\* the column attributes of class Product
ProductColumns == {"id", "name", "price", "unit_measure_id"}

\* faulty variant: the id after the highest stored id, which hands the id
\* of a deleted row out again
NextValBug(s, rows) ==
    IF rows = {} THEN 1
    ELSE (CHOOSE m \in {r.id : r \in rows} : \A r \in rows : r.id <= m) + 1

\* products.id is a serial primary key: the next value of products_id_seq
NextVal(s, rows) == s + 1

\* primary_key=True on id: a committed row already has the id
PrimaryKeyViolation(rows, id) == \E r \in rows : r.id = id

\* nullable=False on name, price, unit_measure_id
NotNullViolation(attrs) ==
    attrs.name = None \/ attrs.price = None \/ attrs.unit_measure_id = None

\* ForeignKey('unit_measures.id') on unit_measure_id
ForeignKeyViolation(um) == um \notin {u.id : u \in UnitMeasure}

\* faulty variant: name declared without unique=True
UniqueViolationBug(rows, name, self) == FALSE

\* unique=True on name: a committed row other than `self` holds the name
UniqueViolation(rows, name, self) ==
    \E r \in rows : r.name = name /\ r.id # self

\* ---- request inputs ----
PathIds == (0 - 1)..MaxSeq
Searches == { <<>>, <<"b">>, <<"_", "b">>, <<"c">> }

\* json_body.get(...) of each field; a missing key reads as None
Body(n, p, u) == [name |-> n, price |-> p, unit_measure_id |-> u]

JsonBodies ==
    { Body(Some(<<"a">>), Some(1), Some(1)),
      Body(Some(<<"a", "b">>), Some(2), Some(2)),
      Body(Some(<<"a", "b">>), Some(1), Some(7)),
      Body(None, Some(1), Some(1)) }

NoBody == [name |-> None, price |-> None, unit_measure_id |-> None]

\* app.current_request.json_body: None when the request has no body
OptionalBodies == {None} \cup {Some(x) : x \in JsonBodies}

\* ---- serialization ----
\* UnitMeasureSchema().dump
UnitMeasureSchemaDump(u) == [id |-> u.id, name |-> u.name]

\* the lazy load of Product.unit_measures: no SQL when the key is None
LoadUnitMeasure(um) ==
    IF um = None THEN None
    ELSE { UnitMeasureSchemaDump(u) : u \in {x \in UnitMeasure : x.id = Val(um)} }

\* ProductSchema().dump of an object whose attributes are attrs
ProductSchemaDump(id, attrs) ==
    [id |-> id, name |-> attrs.name, price |-> attrs.price,
     unit_measure_id |-> attrs.unit_measure_id,
     unit_measures |-> LoadUnitMeasure(attrs.unit_measure_id)]

\* the attributes of a loaded row
RowAttrs(r) ==
    [name |-> Some(r.name), price |-> Some(r.price),
     unit_measure_id |-> Some(r.unit_measure_id)]

\* the row an INSERT or UPDATE writes
MakeRow(id, attrs) ==
    [id |-> id, name |-> Val(attrs.name), price |-> Val(attrs.price),
     unit_measure_id |-> Val(attrs.unit_measure_id)]

\* ---- messages ----
Message(key, resource, id) == [key |-> key, resource |-> resource, id |-> id]

\* ---- response envelope ----
\* faulty variant: the status label not derived from status_code
MakeResponseBug(message, data, status_code, error) ==
    [status |-> "OK", code |-> status_code, message |-> message,
     error |-> error, data |-> data]

MakeResponse(message, data, status_code, error) ==
    [status |-> IF status_code = 400 THEN "BadRequest"
                ELSE IF status_code = 500 THEN "InternalServerError"
                ELSE "OK",
     code |-> status_code, message |-> message, error |-> error, data |-> data]

MakeResponsePaginate(message, data, totalRecords) ==
    [status |-> "OK", code |-> 200, message |-> message, error |-> None,
     data |-> data, total_records |-> totalRecords]

\* how a handler ends: it returns a Response, or an exception leaves it
Returned(handler, body) == [handler |-> handler, raised |-> "", body |-> Some(body)]
Raised(handler, exc) == [handler |-> handler, raised |-> exc, body |-> None]
NoOutcome == [handler |-> "", raised |-> "", body |-> None]

\* ---- state ----
VARIABLES
    products,   \* the committed rows of table products
    seq,        \* the last value products_id_seq handed out
    pc,         \* per worker: where its handler stands
    frame,      \* per worker: the handler's arguments and local variables
    session,    \* per worker: its Session(engine) and open transaction
    resp,       \* how the request that ended in the last step ended
    assigned,   \* history: every id an INSERT gave to a product row
    deleted     \* history: every id whose DELETE was committed

vars == <<products, seq, pc, frame, session, resp, assigned, deleted>>

NoWrite == [kind |-> "none", id |-> 0, row |-> None]

\* the session once its with-block is left: closed, transaction rolled back
ClosedSession == [open |-> FALSE, loaded |-> None, pending |-> None, write |-> NoWrite]

\* faulty variant: the session is not used as a context manager
SessionExitBug(s) == s

\* Session.__exit__: close(), which discards what was not committed
SessionExit(s) == ClosedSession

\* Session(engine).__enter__
OpenSession == [open |-> TRUE, loaded |-> None, pending |-> None, write |-> NoWrite]

NoFrame ==
    [id |-> 0, json_body |-> None, product |-> None, products |-> <<>>,
     offset |-> 0, limit |-> 0, search |-> <<>>, matched |-> 0]

\* session.query(Product).where(Product.id == id).first()
QueryFirst(rows, id) == {r \in rows : r.id = id}

\* faulty variant: a DELETE that is never committed
CommitBug(rows, wr) ==
    IF wr.kind = "insert" THEN rows \cup wr.row
    ELSE IF wr.kind = "update" /\ QueryFirst(rows, wr.id) # {}
         THEN (rows \ QueryFirst(rows, wr.id)) \cup wr.row
    ELSE rows

\* session.commit(): the transaction's write reaches the table
Commit(rows, wr) ==
    IF wr.kind = "insert" THEN rows \cup wr.row
    ELSE IF wr.kind = "update" /\ QueryFirst(rows, wr.id) # {}
         THEN (rows \ QueryFirst(rows, wr.id)) \cup wr.row
    ELSE IF wr.kind = "delete" THEN rows \ QueryFirst(rows, wr.id)
    ELSE rows

\* another open transaction holds the row lock of products.id = id
RowLocked(w, id) ==
    \E v \in Workers \ {w} :
        session[v].write.kind \in {"update", "delete"} /\ session[v].write.id = id

\* another open transaction has an undecided row version that holds `name`:
\* the unique index makes the statement wait for that transaction to end
NameInDoubt(w, name) ==
    \E v \in Workers \ {w} :
        LET wr == session[v].write IN
        \/ wr.kind \in {"insert", "update"} /\ Val(wr.row).name = name
        \/ wr.kind \in {"update", "delete"}
           /\ \E r \in products : r.id = wr.id /\ r.name = name

\* ---- the unit of work: the UPDATE a flush emits for a changed object ----
Dirty(old, attrs) ==
    {c \in {"name", "price", "unit_measure_id"} : attrs[c] # Some(old[c])}

FlushedRow(cur, attrs, dirty) ==
    [id |-> cur.id,
     name |-> IF "name" \in dirty THEN Val(attrs.name) ELSE cur.name,
     price |-> IF "price" \in dirty THEN Val(attrs.price) ELSE cur.price,
     unit_measure_id |-> IF "unit_measure_id" \in dirty
                         THEN Val(attrs.unit_measure_id) ELSE cur.unit_measure_id]

\* the exception the UPDATE of `dirty` columns raises, "" when it succeeds
UpdateRaises(rows, id, attrs, dirty) ==
    IF QueryFirst(rows, id) = {} THEN "StaleDataError"
    ELSE IF \E c \in dirty : attrs[c] = None THEN "IntegrityError"
    ELSE IF "name" \in dirty /\ UniqueViolation(rows, Val(attrs.name), id)
         THEN "IntegrityError"
    ELSE IF "unit_measure_id" \in dirty /\ ForeignKeyViolation(Val(attrs.unit_measure_id))
         THEN "IntegrityError"
    ELSE ""

\* the UPDATE waits for another transaction
UpdateBlocked(w, id, attrs, dirty) ==
    /\ QueryFirst(products, id) # {}
    /\ \A c \in dirty : attrs[c] # None
    /\ \/ RowLocked(w, id)
       \/ "name" \in dirty /\ NameInDoubt(w, Val(attrs.name))

\* ---- what ends a request ----
\* the handler of worker w ends with outcome o; its with-block is left
Ends(w, o) ==
    /\ resp' = o
    /\ pc' = [pc EXCEPT ![w] = "idle"]
    /\ frame' = [frame EXCEPT ![w] = NoFrame]
    /\ session' = [session EXCEPT ![w] = SessionExit(session[w])]

\* faulty variant: status_code=400 left out, so the default 200 is used
NotFoundBug(id) ==
    MakeResponse(Message("RecordNotFound", "product", Some(id)), None, 200, None)

\* the RecordNotFound response of the get, update and delete handlers
NotFound(id) ==
    MakeResponse(Message("RecordNotFound", "product", Some(id)), None, 400, None)

Init ==
    /\ products = {}
    /\ seq = 0
    /\ pc = [w \in Workers |-> "idle"]
    /\ frame = [w \in Workers |-> NoFrame]
    /\ session = [w \in Workers |-> ClosedSession]
    /\ resp = NoOutcome
    /\ assigned = {}
    /\ deleted = {}

\* ---- GET /product/{id} ----
\* the response showProduct builds from the committed rows
ShowProductResponse(rows, id) ==
    IF QueryFirst(rows, id) = {} THEN NotFound(id)
    ELSE LET data == Val(QueryFirst(rows, id)) IN
         MakeResponse(Message("RecordFound", "product", None),
                      Some(ProductSchemaDump(data.id, RowAttrs(data))), 200, None)

showProduct(w, id) ==
    /\ pc[w] = "idle"
    /\ Ends(w, Returned("showProduct", ShowProductResponse(products, id)))
    /\ UNCHANGED <<products, seq, assigned, deleted>>

\* ---- POST /product ----
\* session.add(product); session.flush(): the INSERT; then the dump
storeProduct(w, json_body) ==
    /\ pc[w] = "idle"
    /\ IF json_body = None
       THEN /\ Ends(w, Raised("storeProduct", "AttributeError"))
            /\ UNCHANGED <<products, seq, assigned, deleted>>
       ELSE LET attrs == Val(json_body)
                id == NextVal(seq, products) IN
            /\ seq < MaxSeq
            /\ seq' = id
            /\ UNCHANGED <<products, deleted>>
            /\ IF NotNullViolation(attrs)
               THEN Ends(w, Raised("storeProduct", "IntegrityError")) /\ UNCHANGED assigned
               ELSE /\ ~NameInDoubt(w, Val(attrs.name))
                    /\ IF \/ PrimaryKeyViolation(products, id)
                          \/ UniqueViolation(products, Val(attrs.name), id)
                          \/ ForeignKeyViolation(Val(attrs.unit_measure_id))
                       THEN Ends(w, Raised("storeProduct", "IntegrityError")) /\ UNCHANGED assigned
                       ELSE /\ session' = [session EXCEPT ![w] =
                                  [OpenSession EXCEPT !.write =
                                      [kind |-> "insert", id |-> id,
                                       row |-> Some(MakeRow(id, attrs))]]]
                            /\ frame' = [frame EXCEPT ![w] =
                                  [NoFrame EXCEPT !.product = Some(ProductSchemaDump(id, attrs))]]
                            /\ pc' = [pc EXCEPT ![w] = "store_commit"]
                            /\ assigned' = assigned \cup {id}
                            /\ resp' = NoOutcome

\* session.commit() and the RecordCreated response
storeProductCommit(w) ==
    /\ pc[w] = "store_commit"
    /\ products' = Commit(products, session[w].write)
    /\ Ends(w, Returned("storeProduct", MakeResponse(Message("RecordCreated", "product", None),
                                     frame[w].product, 200, None)))
    /\ UNCHANGED <<seq, assigned, deleted>>

\* ---- DELETE /product/{id} ----
\* the lookup, and the early return when the row is absent
destroyProduct(w, id) ==
    /\ pc[w] = "idle"
    /\ IF QueryFirst(products, id) = {}
       THEN Ends(w, Returned("destroyProduct", NotFound(id)))
       ELSE /\ session' = [session EXCEPT ![w] =
                  [OpenSession EXCEPT !.loaded = QueryFirst(products, id)]]
            /\ frame' = [frame EXCEPT ![w] = [NoFrame EXCEPT !.id = id]]
            /\ pc' = [pc EXCEPT ![w] = "destroy_delete"]
            /\ resp' = NoOutcome
    /\ UNCHANGED <<products, seq, assigned, deleted>>

\* session.query(Product).where(Product.id == id).delete()
destroyProductDelete(w) ==
    /\ pc[w] = "destroy_delete"
    /\ ~RowLocked(w, frame[w].id)
    /\ session' = [session EXCEPT ![w].write =
          IF QueryFirst(products, frame[w].id) = {} THEN NoWrite
          ELSE [kind |-> "delete", id |-> frame[w].id, row |-> None]]
    /\ pc' = [pc EXCEPT ![w] = "destroy_commit"]
    /\ resp' = NoOutcome
    /\ UNCHANGED <<products, seq, frame, assigned, deleted>>

\* session.commit() and the RecordDeleted response
destroyProductCommit(w) ==
    /\ pc[w] = "destroy_commit"
    /\ products' = Commit(products, session[w].write)
    /\ Ends(w, Returned("destroyProduct", MakeResponse(Message("RecordDeleted", "product", Some(frame[w].id)),
                                     None, 200, None)))
    /\ deleted' = IF session[w].write.kind = "delete"
                  THEN deleted \cup {session[w].write.id} ELSE deleted
    /\ UNCHANGED <<seq, assigned>>

\* ---- PUT /product/{id} ----
\* the lookup, and the early return when the row is absent
updateProduct(w, id, json_body) ==
    /\ pc[w] = "idle"
    /\ IF QueryFirst(products, id) = {}
       THEN Ends(w, Returned("updateProduct", NotFound(id)))
       ELSE /\ session' = [session EXCEPT ![w] =
                  [OpenSession EXCEPT !.loaded = QueryFirst(products, id)]]
            /\ frame' = [frame EXCEPT ![w] =
                  [NoFrame EXCEPT !.id = id, !.json_body = json_body]]
            /\ pc' = [pc EXCEPT ![w] = "update_dump"]
            /\ resp' = NoOutcome
    /\ UNCHANGED <<products, seq, assigned, deleted>>

\* the three assignments and ProductSchema().dump(product): reading
\* product.unit_measures loads it, and that query flushes the changed
\* object first (autoflush) unless unit_measure_id is None (no query)
updateProductDump(w) ==
    /\ pc[w] = "update_dump"
    /\ UNCHANGED <<products, seq, assigned, deleted>>
    /\ IF frame[w].json_body = None
       THEN Ends(w, Raised("updateProduct", "AttributeError"))
       ELSE LET attrs == Val(frame[w].json_body)
                old == Val(session[w].loaded)
                dirty == Dirty(old, attrs)
                dumped == Some(ProductSchemaDump(old.id, attrs)) IN
            IF attrs.unit_measure_id = None \/ dirty = {}
            THEN /\ session' = [session EXCEPT ![w].pending = Some(attrs)]
                 /\ frame' = [frame EXCEPT ![w].product = dumped]
                 /\ pc' = [pc EXCEPT ![w] = "update_bulk"]
                 /\ resp' = NoOutcome
            ELSE /\ ~UpdateBlocked(w, old.id, attrs, dirty)
                 /\ IF UpdateRaises(products, old.id, attrs, dirty) # ""
                    THEN Ends(w, Raised("updateProduct", UpdateRaises(products, old.id, attrs, dirty)))
                    ELSE /\ session' = [session EXCEPT ![w].write =
                               [kind |-> "update", id |-> old.id,
                                row |-> Some(FlushedRow(Val(QueryFirst(products, old.id)),
                                                        attrs, dirty))]]
                         /\ frame' = [frame EXCEPT ![w].product = dumped]
                         /\ pc' = [pc EXCEPT ![w] = "update_bulk"]
                         /\ resp' = NoOutcome

\* Query.update(values): every key of values must name a column; the dump's
\* "unit_measures" key names the relationship, and the statement fails
BulkUpdateRaises(values) ==
    IF DOMAIN values \subseteq ProductColumns THEN "" ELSE "StatementError"

\* session.query(Product).where(Product.id == id).update(product), then
\* session.commit() and the RecordUpdated response
updateProductQueryUpdate(w) ==
    /\ pc[w] = "update_bulk"
    /\ UNCHANGED <<seq, assigned, deleted>>
    /\ LET id == frame[w].id
           values == Val(frame[w].product)
           old == Val(session[w].loaded)
           unflushed == IF session[w].pending = None THEN {}
                        ELSE Dirty(old, Val(session[w].pending))
           all == {"name", "price", "unit_measure_id"} IN
       IF unflushed # {}
       THEN \* autoflush of the object not flushed during the dump
            LET attrs == Val(session[w].pending) IN
            /\ ~UpdateBlocked(w, old.id, attrs, unflushed)
            /\ IF UpdateRaises(products, old.id, attrs, unflushed) # ""
               THEN /\ Ends(w, Raised("updateProduct", UpdateRaises(products, old.id, attrs, unflushed)))
                    /\ UNCHANGED products
               ELSE /\ session' = [session EXCEPT ![w].pending = None, ![w].write =
                          [kind |-> "update", id |-> old.id,
                           row |-> Some(FlushedRow(Val(QueryFirst(products, old.id)),
                                                   attrs, unflushed))]]
                    /\ resp' = NoOutcome
                    /\ UNCHANGED <<products, pc, frame>>
       ELSE IF BulkUpdateRaises(values) # ""
       THEN Ends(w, Raised("updateProduct", BulkUpdateRaises(values))) /\ UNCHANGED products
       ELSE /\ ~UpdateBlocked(w, id, values, all)
            /\ IF UpdateRaises(products, id, values, all) # ""
               THEN /\ Ends(w, Raised("updateProduct", UpdateRaises(products, id, values, all)))
                    /\ UNCHANGED products
               ELSE /\ products' = Commit(products,
                          [kind |-> "update", id |-> id,
                           row |-> Some(MakeRow(values.id, values))])
                    /\ Ends(w, Returned("updateProduct", MakeResponse(
                          Message("RecordUpdated", "product", Some(id)),
                          frame[w].product, 200, None)))

\* ---- GET /products ----
DefaultOffset == 0
DefaultLimit == 10

RECURSIVE Like(_, _)
\* name LIKE pattern: % is any run of characters, _ is any one character
Like(p, s) ==
    IF p = <<>> THEN s = <<>>
    ELSE IF Head(p) = "%"
         THEN Like(Tail(p), s) \/ (s # <<>> /\ Like(p, Tail(s)))
    ELSE s # <<>> /\ (Head(p) = "_" \/ Head(p) = Head(s)) /\ Like(Tail(p), Tail(s))

\* .filter(Product.name.like(f"%{search}%"))
Matching(rows, search) == {r \in rows : Like(<<"%">> \o search \o <<"%">>, r.name)}

Min(a, b) == IF a < b THEN a ELSE b

\* the orders in which a query without ORDER BY can return the rows
Orders(rows) ==
    {o \in [1..Cardinality(rows) -> rows] : \A i, j \in DOMAIN o : i # j => o[i] # o[j]}

\* .offset(offset).limit(limit).all()
Page(order, offset, limit) == SubSeq(order, offset + 1, Min(Len(order), offset + limit))

\* query_params is None when the request has no query string; a present
\* key is read, an absent one takes its default
QueryParams ==
    {None} \cup
    {Some([offset |-> o, limit |-> l, search |-> s]) :
        o \in {None} \cup {Some(n) : n \in 0..MaxPage},
        l \in {None} \cup {Some(n) : n \in 0..MaxPage},
        s \in {Some(x) : x \in Searches}}

Get(param, default) == IF param = None THEN default ELSE Val(param)

\* the page query; an empty page skips the loop and returns at once
indexProducts(w, query_params) ==
    /\ pc[w] = "idle"
    /\ UNCHANGED <<products, seq, assigned, deleted>>
    /\ IF query_params = None
       THEN Ends(w, Raised("indexProducts", "AttributeError"))
       ELSE LET q == Val(query_params)
                offset == Get(q.offset, DefaultOffset)
                limit == Get(q.limit, DefaultLimit)
                search == Get(q.search, <<>>)
                found == Matching(products, search) IN
            \E order \in Orders(found) :
                LET page == Page(order, offset, limit) IN
                IF page = <<>>
                THEN Ends(w, Returned("indexProducts", MakeResponsePaginate(
                         Message("RecordFound", "products", None), <<>>, 0)))
                ELSE /\ session' = [session EXCEPT ![w] = OpenSession]
                     /\ frame' = [frame EXCEPT ![w] =
                           [NoFrame EXCEPT
                              !.products = [i \in DOMAIN page |->
                                  ProductSchemaDump(page[i].id, RowAttrs(page[i]))],
                              !.offset = offset, !.limit = limit, !.search = search,
                              !.matched = Cardinality(found)]]
                     /\ pc' = [pc EXCEPT ![w] = "index_count"]
                     /\ resp' = NoOutcome

\* the count query of the loop's last pass, and the paginated response
indexProductsCount(w) ==
    /\ pc[w] = "index_count"
    /\ Ends(w, Returned("indexProducts", MakeResponsePaginate(
           Message("RecordFound", "products", None), frame[w].products,
           Cardinality(Matching(products, frame[w].search)))))
    /\ UNCHANGED <<products, seq, assigned, deleted>>

\* ---- specifications ----
\* three list requests: no query string, every key absent, every key given
SomeQueryParams ==
    { None,
      Some([offset |-> None, limit |-> None, search |-> None]),
      Some([offset |-> Some(1), limit |-> Some(1), search |-> Some(<<"b">>)]) }

\* every handler, run concurrently by the workers
Next ==
    \E w \in Workers :
        \/ \E id \in PathIds : showProduct(w, id)
        \/ \E b \in OptionalBodies : storeProduct(w, b)
        \/ storeProductCommit(w)
        \/ \E id \in PathIds, b \in OptionalBodies :
              updateProduct(w, id, b)
        \/ updateProductDump(w)
        \/ updateProductQueryUpdate(w)
        \/ \E id \in PathIds : destroyProduct(w, id)
        \/ destroyProductDelete(w)
        \/ destroyProductCommit(w)
        \/ \E q \in SomeQueryParams : indexProducts(w, q)
        \/ indexProductsCount(w)

Spec == Init /\ [][Next]_vars

\* the list handler over every offset, limit and search, run while other
\* workers create and delete products
ListBodies == {b \in JsonBodies : ~NotNullViolation(b)}

NextList ==
    \E w \in Workers :
        \/ \E q \in QueryParams : indexProducts(w, q)
        \/ indexProductsCount(w)
        \/ \E b \in ListBodies : storeProduct(w, Some(b))
        \/ storeProductCommit(w)
        \/ \E id \in 1..MaxSeq : destroyProduct(w, id)
        \/ destroyProductDelete(w)
        \/ destroyProductCommit(w)

SpecList == Init /\ [][NextList]_vars

\* ---- properties ----
Ids(rows) == {r.id : r \in rows}
Body_(o) == Val(o.body)
PayloadFields(d) == [name |-> d.name, price |-> d.price, unit_measure_id |-> d.unit_measure_id]

\* a create payload the store accepts: no NULL, the name free, the unit there
ValidCreate(b, rows) ==
    /\ b.name # None /\ b.price # None /\ b.unit_measure_id # None
    /\ \A r \in rows : r.name # Val(b.name)
    /\ \E u \in UnitMeasure : u.id = Val(b.unit_measure_id)

\* a replacement payload the store accepts for row id
ValidUpdate(b, rows, id) ==
    /\ b.name # None /\ b.price # None /\ b.unit_measure_id # None
    /\ \A r \in rows : r.id # id => r.name # Val(b.name)
    /\ \E u \in UnitMeasure : u.id = Val(b.unit_measure_id)

\* C1: a valid POST /product gets an id > 0 that no product row had before
\* (deleted rows included), and a GET of that id right after the commit
\* answers 200 with the payload's name, price and unit_measure_id.
C1_CreateFreshIdThenGet ==
    [][\A w \in Workers :
         /\ \A b \in JsonBodies :
              (storeProduct(w, Some(b)) /\ ValidCreate(b, products)) =>
                  /\ pc'[w] = "store_commit"
                  /\ session'[w].write.id > 0
                  /\ session'[w].write.id \notin assigned
                  /\ Val(frame'[w].product).id = session'[w].write.id
                  /\ PayloadFields(Val(frame'[w].product)) = b
         /\ storeProductCommit(w) =>
              LET d == Val(frame[w].product)
                  g == ShowProductResponse(products', d.id) IN
              /\ Body_(resp').code = 200
              /\ Body_(resp').data = Some(d)
              /\ g.code = 200
              /\ PayloadFields(Val(g.data)) = PayloadFields(d)
      ]_vars

\* C1 witness: a create has just answered with id 2 while id 1, assigned
\* earlier, belongs to a deleted product
C1_Witness ==
    /\ resp.handler = "storeProduct" /\ resp.body # None
    /\ Val(Body_(resp).data).id \in Ids(products)
    /\ \E i \in deleted : i < Val(Body_(resp).data).id

\* C2: once a PUT with an acceptable payload on an existing product has
\* ended, a GET of the id returns exactly the payload's three fields.
C2_PutThenGet ==
    [][\A w \in Workers :
         (updateProductQueryUpdate(w) /\ pc'[w] = "idle"
            /\ ValidUpdate(Val(frame[w].json_body), products, frame[w].id)
            /\ QueryFirst(products, frame[w].id) # {}) =>
              LET g == ShowProductResponse(products', frame[w].id) IN
              /\ g.code = 200
              /\ PayloadFields(Val(g.data)) = Val(frame[w].json_body)
      ]_vars

Clamp(n) == IF n < 0 THEN 0 ELSE n

\* C3: GET /products reports total_records = N, the number of matching
\* products, for every offset and limit, with Len(data) = max(0, min(limit, N - offset)).
C3_TotalRecords ==
    [][\A w \in Workers :
         /\ \A q \in QueryParams \ {None} :
              (indexProducts(w, q) /\ pc'[w] = "idle") =>
                  LET n == Cardinality(Matching(products, Get(Val(q).search, <<>>)))
                      offset == Get(Val(q).offset, DefaultOffset)
                      limit == Get(Val(q).limit, DefaultLimit) IN
                  /\ Body_(resp').total_records = n
                  /\ Len(Body_(resp').data) = Clamp(Min(limit, n - offset))
         /\ (indexProductsCount(w)
               /\ Cardinality(Matching(products, frame[w].search)) = frame[w].matched) =>
                  LET n == frame[w].matched IN
                  /\ Body_(resp').total_records = n
                  /\ Len(Body_(resp').data) = Clamp(Min(frame[w].limit, n - frame[w].offset))
      ]_vars

\* C4: an id whose DELETE was committed has no row from then on; a GET of
\* it answers 400, and a further DELETE of it answers 400 and changes nothing.
C4_DeletedStaysAbsent ==
    [][/\ \A id \in deleted' : QueryFirst(products', id) = {}
       /\ \A w \in Workers : \A id \in deleted :
            /\ showProduct(w, id) => resp' = Returned("showProduct", NotFound(id))
            /\ destroyProduct(w, id) =>
                 /\ resp' = Returned("destroyProduct", NotFound(id))
                 /\ Body_(resp').code = 400
                 /\ pc'[w] = "idle"
                 /\ products' = products
      ]_vars

\* C4 witness: a second DELETE of a deleted id has just answered 400
C4_Witness ==
    /\ resp.handler = "destroyProduct" /\ resp.body # None
    /\ Body_(resp).code = 400
    /\ Val(Body_(resp).message.id) \in deleted

\* C5: a create the store rejects (NULL field, name in use, unknown unit)
\* is answered with the envelope, code 500 and status InternalServerError.
C5_RejectedCreateIs500 ==
    [][\A w \in Workers : \A b \in JsonBodies :
         (storeProduct(w, Some(b)) /\ ~ValidCreate(b, products)) =>
             /\ resp'.raised = ""
             /\ resp'.body # None
             /\ Body_(resp').code = 500
             /\ Body_(resp').status = "InternalServerError"
      ]_vars

\* C6: a worker that is not inside a handler has no open session and no
\* pending write, on whatever path its last request ended; and a request
\* that ended by an exception or a 400 left the committed rows as they were.
C6_SessionReleased ==
    [][/\ \A w \in Workers : pc'[w] = "idle" => session'[w] = ClosedSession
       /\ (resp'.raised # "" \/ (resp'.body # None /\ Body_(resp').code = 400)) =>
             products' = products
      ]_vars

\* C6 witness: an update whose UPDATE was flushed has just failed, and
\* every session is closed
C6_Witness ==
    /\ resp.raised = "StatementError"
    /\ \A w \in Workers : session[w] = ClosedSession

C8_ShowAbsent ==
    [][(resp'.handler = "showProduct") =>
         (\A w \in Workers : \A id \in PathIds :
            (QueryFirst(products, id) = {} /\ showProduct(w, id)) =>
                /\ resp'.raised = "" /\ resp'.body # None
                /\ Body_(resp').code = 400
                /\ Body_(resp').status = "BadRequest"
                /\ Body_(resp').data = None
                /\ products' = products)
      ]_vars

\* C8 witness: a GET of id 0 or below has just been answered 400
C8_Witness ==
    /\ resp.handler = "showProduct" /\ resp.body # None
    /\ Body_(resp).code = 400
    /\ Val(Body_(resp).message.id) <= 0
    /\ products # {}

\* C9: a PUT or DELETE of an id with no row ends at its lookup (it never
\* goes on to its UPDATE or DELETE statement), and the PUT or DELETE that
\* ends at its lookup answers code 400, status BadRequest, data None for
\* an id that has no row, leaves every row as it was and leaves no session.
C9_AbsentWriteIsNoop ==
    [][/\ \A w \in Workers :
            (pc[w] = "idle" /\ pc'[w] \in {"update_dump", "destroy_delete"}) =>
                QueryFirst(products, frame'[w].id) # {}
       /\ (pc' = pc /\ resp'.handler \in {"updateProduct", "destroyProduct"}) =>
            (/\ resp'.raised = "" /\ resp'.body # None
             /\ Body_(resp').code = 400
             /\ Body_(resp').status = "BadRequest"
             /\ Body_(resp').data = None
             /\ Val(Body_(resp').message.id) \notin Ids(products)
             /\ products' = products
             /\ \A w \in Workers : pc[w] = "idle" => session'[w] = ClosedSession)
      ]_vars

\* C9 witness: a PUT of an absent id has just been answered 400 while
\* rows exist
C9_Witness ==
    /\ resp.handler = "updateProduct" /\ resp.body # None
    /\ Body_(resp).code = 400
    /\ products # {}
    /\ Val(Body_(resp).message.id) \notin Ids(products)

\* C10: every committed product references an existing unit measure, and
\* no two committed products share an id or a name.
C10_StoreConstraints ==
    /\ \A r \in products : \E u \in UnitMeasure : u.id = r.unit_measure_id
    /\ \A r1, r2 \in products : r1 # r2 => (r1.id # r2.id /\ r1.name # r2.name)

\* C10 witness: two products are stored and a request has just been
\* rejected by a constraint
C10_Witness ==
    /\ Cardinality(products) = 2
    /\ resp.raised = "IntegrityError"

====
